---- MODULE Spec2Model ----
(***************************************************************************)
(* MatriAI: the /match request handler of the dashboard                    *)
(* (dashboard/app/api/match/route.ts, GET), the dashboard page that calls  *)
(* it (Home: handleSearch, handleClear, topMatches) and the ranking of a   *)
(* similarity search.                                                      *)
(*                                                                         *)
(* URL parameters are strings; a parameter that is not in the URL is       *)
(* NoParam (searchParams.get returns null).  Numeric parameters are kept   *)
(* as integers, NoNum standing for "not in the URL".                       *)
(***************************************************************************)
EXTENDS Integers, Sequences, FiniteSets, TLC

VARIABLES
    request,          \* the /match request last answered by GET
    response,         \* the response GET gave to it
    exchanged,        \* TRUE once a request has been answered
    searchParams,     \* Home: useState<SearchParams>({})
    matches,          \* Home: useState<Match[]>([])
    loading,          \* Home: useState(false)
    error,            \* Home: useState<string | null>(null)
    totalCandidates,  \* Home: useState(0)
    inflight,         \* handleSearch calls awaiting their fetch
    nextId,           \* number of handleSearch calls made so far
    handled,          \* the fetch outcome handleSearch handled last
    latest,           \* the outcome of the most recently submitted search
    cleared,          \* TRUE from handleClear until the next handleSearch
    indexAvailable,   \* whether the vector index answers
    indexScore,       \* similarity score of each indexed profile
    pool,             \* candidate hits returned by the similarity search
    ranked,           \* the ranked result list
    cards,            \* the MatchCards Home renders for it
    profileStore,     \* Profile Store: embedding text of each profile
    embedFn,          \* Embedding Function: text -> vector, or a failure
    vectorIndex,      \* Vector Index: the embedding records
    run,              \* the bulk indexer's run: cursor, limit, summary
    prevIndex,        \* the Vector Index as the previous run left it
    regs,             \* the registrations under way
    found,            \* the profile ids the last similarity search returned
    formData,         \* SearchPreferencesForm: useState({...})
    panel             \* what AIReviewPanel renders

apiVars  == <<request, response, exchanged>>
dashVars == <<searchParams, matches, loading, error, totalCandidates,
              inflight, nextId, handled, latest, cleared, indexAvailable>>
rankVars == <<indexScore, pool, ranked, cards>>
idxVars  == <<profileStore, embedFn, vectorIndex, run, prevIndex, regs, found>>
uiVars   == <<formData, panel>>
vars     == <<apiVars, dashVars, rankVars, idxVars, uiVars>>

----------------------------------------------------------------------------
(* Values *)

NoParam == "<absent>"
NoNum   == -1
NoError == "<null>"

Min(a, b) == IF a < b THEN a ELSE b

\* route.ts:5-36
mockResults ==
    << [_id |-> "507f1f77bcf86cd799439011", Age |-> 28, Gender |-> "Female",
        Caste |-> "Brahmin", Sect |-> "Hindu", State |-> "California",
        Marital_Status |-> "Never Married"],
       [_id |-> "507f1f77bcf86cd799439012", Age |-> 26, Gender |-> "Female",
        Caste |-> "Kshatriya", Sect |-> "Hindu", State |-> "Texas",
        Marital_Status |-> "Never Married"],
       [_id |-> "507f1f77bcf86cd799439013", Age |-> 29, Gender |-> "Female",
        Caste |-> "Brahmin", Sect |-> "Hindu", State |-> "New York",
        Marital_Status |-> "Never Married"] >>

DefaultQuery == "looking for suitable partner"

\* route.ts:1-45.  The handler reads only `query` (for the echo) and echoes
\* every parameter back in `filters`; results and candidates are fixed.
GET(req) ==
    [ kind       |-> "Ok",
      status     |-> 200,
      query      |-> IF req.query = NoParam \/ req.query = ""
                     THEN DefaultQuery ELSE req.query,
      filters    |-> req,
      candidates |-> 45,
      took_ms    |-> 234,
      results    |-> mockResults ]

----------------------------------------------------------------------------
(* /match requests, as in the curl examples (part_000:6-14) *)

QueryTexts   == {NoParam, "", "educated partner"}
UserIds      == {NoParam, "507f1f77bcf86cd799439011", "USER_ID_HERE"}
GenderParams == {NoParam, "Male", "Female"}
SameGenders  == {NoParam, "true"}
CasteParams  == {NoParam, "Syed", "brahmin"}
AgeRanges    == {<<NoNum, NoNum>>, <<24, 32>>}
Tolerances   == {NoNum, 1}
TopKs        == {NoNum, 0, 10}

Requests ==
    { [query |-> q, user_id |-> u, gender |-> g, same_gender |-> sg,
       caste |-> c, sect |-> NoParam, marital_status |-> NoParam, state |-> NoParam,
       age_tolerance |-> t, min_age |-> a[1], max_age |-> a[2], top_k |-> k] :
         q \in QueryTexts, u \in UserIds, g \in GenderParams,
         sg \in SameGenders, c \in CasteParams, a \in AgeRanges, t \in Tolerances, k \in TopKs }

NoRequest ==
    [query |-> NoParam, user_id |-> NoParam, gender |-> NoParam,
     same_gender |-> NoParam, caste |-> NoParam, sect |-> NoParam,
     marital_status |-> NoParam, state |-> NoParam, age_tolerance |-> NoNum,
     min_age |-> NoNum, max_age |-> NoNum, top_k |-> NoNum]

----------------------------------------------------------------------------
(* The request/response exchange *)

ApiInit ==
    /\ request = NoRequest
    /\ response = GET(NoRequest)
    /\ exchanged = FALSE

\* curl ".../match?..." answered by GET
Match(req) ==
    /\ request' = req
    /\ response' = GET(req)
    /\ exchanged' = TRUE

----------------------------------------------------------------------------
(* Home (route.ts:83-164): the dashboard page *)

\* useState<SearchParams>({}): every field undefined
EmptyParams ==
    [gender |-> NoParam, same_gender |-> NoParam, age_range |-> <<>>,
     caste |-> NoParam, sect |-> NoParam, marital_status |-> NoParam,
     state |-> NoParam, preference |-> NoParam, user_id |-> NoParam,
     age_tolerance |-> NoNum]

\* The parameter objects handed to handleSearch: what the preferences form
\* submits (part_002:111-125; the form's defaults are gender "Male", ages
\* 22-32, tolerance 5), and the bare object {}.
SubmittedParams ==
    { [gender |-> "Male", same_gender |-> "false", age_range |-> <<22, 32>>,
       caste |-> NoParam, sect |-> NoParam, marital_status |-> NoParam,
       state |-> NoParam, preference |-> pr, user_id |-> u,
       age_tolerance |-> 5] :
         pr \in {NoParam, "educated partner"},
         u \in {NoParam, "507f1f77bcf86cd799439011"} }
    \cup { [gender |-> "Female", same_gender |-> "true", age_range |-> <<22, 32>>,
             caste |-> "Brahmin", sect |-> "Hindu", marital_status |-> "Never Married",
             state |-> "Texas", preference |-> NoParam,
             user_id |-> "507f1f77bcf86cd799439011", age_tolerance |-> 5] }
    \cup {EmptyParams}

\* JavaScript truthiness of an optional string
Truthy(s) == s # NoParam /\ s # ""

\* route.ts:110-129: the URL parameters handleSearch builds
BuildQuery(params) ==
    [query          |-> IF Truthy(params.preference) THEN params.preference ELSE NoParam,
     user_id        |-> IF Truthy(params.user_id) THEN params.user_id ELSE NoParam,
     gender         |-> IF Truthy(params.gender) THEN params.gender ELSE NoParam,
     same_gender    |-> IF params.same_gender = "true" THEN "true" ELSE NoParam,
     caste          |-> IF Truthy(params.caste) THEN params.caste ELSE NoParam,
     sect           |-> IF Truthy(params.sect) THEN params.sect ELSE NoParam,
     marital_status |-> IF Truthy(params.marital_status) THEN params.marital_status ELSE NoParam,
     state          |-> IF Truthy(params.state) THEN params.state ELSE NoParam,
     age_tolerance  |-> params.age_tolerance,
     min_age        |-> IF params.age_range # <<>> THEN params.age_range[1] ELSE NoNum,
     max_age        |-> IF params.age_range # <<>> THEN params.age_range[2] ELSE NoNum,
     top_k          |-> 10]

\* A JSON body, with `results` / `candidates` possibly missing from it
Body(hasR, r, hasC, c) ==
    [hasResults |-> hasR, results |-> r, hasCandidates |-> hasC, candidates |-> c]

BodyOf(resp) == Body(TRUE, resp.results, TRUE, resp.candidates)

EmptyBody == Body(FALSE, <<>>, FALSE, 0)

Outcome(k, st, d, b) == [kind |-> k, status |-> st, detail |-> d, body |-> b]

\* 503 with FastAPI's {"detail": ...} body
Unavailable == Outcome("HttpError", 503, "ServiceUnavailable", EmptyBody)

\* What the fetch of route.ts:134 can end in while the service works: the
\* response of the /match handler, a success with no match, a success whose
\* body has neither field, a 4xx with or without a detail, a body that is
\* not JSON, and a rejected fetch.
FetchOutcomes(req) ==
    { Outcome("Ok", 200, NoParam, BodyOf(GET(req))),
      Outcome("Ok", 200, NoParam, Body(TRUE, <<>>, TRUE, 0)),
      Outcome("Ok", 200, NoParam, EmptyBody),
      Outcome("HttpError", 404, "User not found", EmptyBody),
      Outcome("HttpError", 400, NoParam, EmptyBody),
      Outcome("InvalidJson", 200, NoParam, EmptyBody),
      Outcome("NetworkError", 0, NoParam, EmptyBody) }

\* Spec 4.2 / 7: while the vector index or the embedding function is
\* unavailable, a match query is answered ServiceUnavailable.
ServiceOutcomes(req, available) ==
    IF available THEN FetchOutcomes(req) ELSE {Unavailable}

\* `API error: ${response.status}` (route.ts:143)
ApiErrorText(status) ==
    CASE status = 400 -> "API error: 400"
      [] status = 404 -> "API error: 404"
      [] status = 503 -> "API error: 503"
      [] OTHER        -> "API error"

\* route.ts:141-143, 151: the message the catch block stores
ErrorMessage(o) ==
    CASE o.kind = "HttpError"    -> IF Truthy(o.detail) THEN o.detail
                                    ELSE ApiErrorText(o.status)
      [] o.kind = "InvalidJson"  -> "Unexpected token"
      [] OTHER                   -> "Failed to fetch"

NoOutcome == Outcome("None", 0, NoParam, EmptyBody)

NoneHandled == [id |-> 0, outcome |-> NoOutcome, available |-> TRUE]

DashInit ==
    /\ searchParams = EmptyParams
    /\ matches = <<>>
    /\ loading = FALSE
    /\ error = NoError
    /\ totalCandidates = 0
    /\ inflight = <<>>
    /\ nextId = 0
    /\ handled = NoneHandled
    /\ latest = NoOutcome
    /\ cleared = FALSE
    /\ indexAvailable = TRUE

MaxSearches == 3

\* route.ts:104-139: handleSearch up to its await of fetch
HandleSearchStart(params) ==
    /\ nextId < MaxSearches
    /\ searchParams' = params
    /\ loading' = TRUE
    /\ error' = NoError
    /\ inflight' = Append(inflight, [id |-> nextId + 1, req |-> BuildQuery(params)])
    /\ nextId' = nextId + 1
    /\ latest' = NoOutcome
    /\ cleared' = FALSE
    /\ UNCHANGED <<matches, totalCandidates, handled, indexAvailable>>

RemoveAt(s, i) == SubSeq(s, 1, i - 1) \o SubSeq(s, i + 1, Len(s))

\* handleSearch without its `finally`: loading is reset on success only
HandleSearchFinishNoFinally(i, o) ==
    /\ i \in 1..Len(inflight)
    /\ o \in ServiceOutcomes(inflight[i].req, indexAvailable)
    /\ IF o.kind = "Ok"
       THEN /\ matches' = IF o.body.hasResults THEN o.body.results ELSE <<>>
            /\ totalCandidates' = IF o.body.hasCandidates THEN o.body.candidates ELSE 0
            /\ error' = error
            /\ loading' = FALSE
       ELSE /\ error' = ErrorMessage(o)
            /\ matches' = <<>>
            /\ totalCandidates' = totalCandidates
            /\ loading' = loading
    /\ inflight' = RemoveAt(inflight, i)
    /\ handled' = [id |-> inflight[i].id, outcome |-> o, available |-> indexAvailable]
    /\ latest' = IF inflight[i].id = nextId THEN o ELSE latest
    /\ UNCHANGED <<searchParams, nextId, cleared, indexAvailable>>

\* route.ts:141-157: handleSearch from the fetch's outcome to its end
HandleSearchFinish(i, o) ==
    /\ i \in 1..Len(inflight)
    /\ o \in ServiceOutcomes(inflight[i].req, indexAvailable)
    /\ IF o.kind = "Ok"
       THEN /\ matches' = IF o.body.hasResults THEN o.body.results ELSE <<>>
            /\ totalCandidates' = IF o.body.hasCandidates THEN o.body.candidates ELSE 0
            /\ error' = error
       ELSE /\ error' = ErrorMessage(o)
            /\ matches' = <<>>
            /\ totalCandidates' = totalCandidates
    /\ loading' = FALSE
    /\ inflight' = RemoveAt(inflight, i)
    /\ handled' = [id |-> inflight[i].id, outcome |-> o, available |-> indexAvailable]
    /\ latest' = IF inflight[i].id = nextId THEN o ELSE latest
    /\ UNCHANGED <<searchParams, nextId, cleared, indexAvailable>>

\* route.ts:160-164
HandleClear ==
    /\ searchParams' = EmptyParams
    /\ matches' = <<>>
    /\ error' = NoError
    /\ cleared' = TRUE
    /\ UNCHANGED <<loading, totalCandidates, inflight, nextId, handled, latest,
                   indexAvailable>>

\* The vector index (or the embedding function) goes down or comes back
IndexToggle ==
    /\ indexAvailable' = ~indexAvailable
    /\ UNCHANGED <<searchParams, matches, loading, error, totalCandidates,
                   inflight, nextId, handled, latest, cleared>>

\* route.ts:166-167
TopMatches(ms) == SubSeq(ms, 1, Min(2, Len(ms)))
AllCandidates(ms) == SubSeq(ms, 1, Min(10, Len(ms)))

\* MatchCards with the rank taken to be idx itself
MatchCardsRankIsIdx(ms) ==
    [k \in 1..Len(TopMatches(ms)) |->
        [match |-> TopMatches(ms)[k], rank |-> k - 1, isTop |-> (k - 1) = 0]]

\* route.ts:237-239: one MatchCard per top match, idx counted from 0
MatchCards(ms) ==
    [k \in 1..Len(TopMatches(ms)) |->
        [match |-> TopMatches(ms)[k], rank |-> (k - 1) + 1, isTop |-> (k - 1) = 0]]

----------------------------------------------------------------------------
(* SearchPreferencesForm (part_002:17-142) *)

\* The value "" of a number input that has been cleared
EmptyNum == -2

\* part_002:18-30
InitialFormData ==
    [gender |-> "Male", same_gender |-> "false", min_age |-> 22, max_age |-> 32,
     caste |-> "", sect |-> "", marital_status |-> "", state |-> "",
     preference |-> "", user_id |-> "", age_tolerance |-> 5]

FormInit == formData = InitialFormData

\* The values typed into (or cleared from) each input
FieldValues(name) ==
    CASE name = "min_age" -> {EmptyNum, 22}
      [] name = "max_age" -> {EmptyNum, 32}
      [] name = "user_id" -> {"", "507f1f77bcf86cd799439011"}

EditedFields == {"min_age", "max_age", "user_id"}

\* part_002:45-51: the input's value, a string, replaces the field
HandleChange(name, value) ==
    /\ formData' = [formData EXCEPT ![name] = value]
    /\ UNCHANGED <<dashVars, panel>>

\* `x || undefined` (part_002:117-122)
OrUndefined(x) == IF x = "" THEN NoParam ELSE x

\* part_002:113-124: the object handleSubmit hands to onSearch
FormParams(fd) ==
    [gender         |-> fd.gender,
     same_gender    |-> fd.same_gender,
     age_range      |-> <<fd.min_age, fd.max_age>>,
     caste          |-> OrUndefined(fd.caste),
     sect           |-> OrUndefined(fd.sect),
     marital_status |-> OrUndefined(fd.marital_status),
     state          |-> OrUndefined(fd.state),
     preference     |-> OrUndefined(fd.preference),
     user_id        |-> OrUndefined(fd.user_id),
     age_tolerance  |-> fd.age_tolerance]

\* The number of submissions of the form that are followed
MaxSubmits == 2

\* part_002:111-125: handleSubmit, onSearch being Home's handleSearch
HandleSubmit ==
    /\ nextId < MaxSubmits
    /\ HandleSearchStart(FormParams(formData))
    /\ UNCHANGED <<formData, panel>>

\* part_002:127-142: handleClearForm, onClear being Home's handleClear
HandleClearForm ==
    /\ formData' = InitialFormData
    /\ HandleClear
    /\ UNCHANGED panel

----------------------------------------------------------------------------
(* AIReviewPanel (part_001:22-110) *)

NoPanel == [rendered |-> FALSE, score |-> 0, reasons |-> <<>>, shown |-> <<>>]

PanelIdle == panel = NoPanel

\* match1 = topMatches[0] and match2 = topMatches[1] are both defined
BothMatches(top) == Len(top) >= 2

JsAbs(n) == IF n < 0 THEN -n ELSE n

\* Math.abs(match1.Age - match2.Age) <= 5
AgeClose(m1, m2) == JsAbs(m1.Age - m2.Age) <= 5

\* generateCompatibilityScore adding 10 for a matching caste
generateCompatibilityScoreCaste10(top) ==
    IF ~BothMatches(top) THEN 0
    ELSE LET s1 == 70 + (IF top[1].Caste = top[2].Caste THEN 10 ELSE 0)
             s2 == s1 + (IF top[1].Sect = top[2].Sect THEN 5 ELSE 0)
             s3 == s2 + (IF top[1].State = top[2].State THEN 5 ELSE 0)
             s4 == s3 + (IF AgeClose(top[1], top[2]) THEN 5 ELSE 0)
             s5 == s4 + (IF top[1].Marital_Status = top[2].Marital_Status THEN 5 ELSE 0)
         IN  Min(s5, 100)

\* part_001:23-34
generateCompatibilityScore(top) ==
    IF ~BothMatches(top) THEN 0
    ELSE LET s1 == 70 + (IF top[1].Caste = top[2].Caste THEN 5 ELSE 0)
             s2 == s1 + (IF top[1].Sect = top[2].Sect THEN 5 ELSE 0)
             s3 == s2 + (IF top[1].State = top[2].State THEN 5 ELSE 0)
             s4 == s3 + (IF AgeClose(top[1], top[2]) THEN 5 ELSE 0)
             s5 == s4 + (IF top[1].Marital_Status = top[2].Marital_Status THEN 5 ELSE 0)
         IN  Min(s5, 100)

GenericReasons ==
    <<"Strong compatibility indicators", "Shared values", "Life stage alignment">>

\* part_001:38-48
generateReasons(top) ==
    LET reasons ==
          IF ~BothMatches(top) THEN <<>>
          ELSE (IF top[1].Caste = top[2].Caste THEN <<"Matching caste background">> ELSE <<>>)
            \o (IF top[1].Sect = top[2].Sect THEN <<"Same religious sect">> ELSE <<>>)
            \o (IF top[1].State = top[2].State THEN <<"Same geographic location">> ELSE <<>>)
            \o (IF AgeClose(top[1], top[2]) THEN <<"Compatible age range">> ELSE <<>>)
            \o (IF top[1].Marital_Status = top[2].Marital_Status
                  THEN <<"Similar marital status">> ELSE <<>>)
    IN  IF Len(reasons) > 0 THEN reasons ELSE GenericReasons

\* part_001:85: reasons.slice(0, 4)
ShownReasons(reasons) == SubSeq(reasons, 1, Min(4, Len(reasons)))

\* The match records the panel is given: optional fields may be missing
PanelMatches ==
    { [_id |-> "507f1f77bcf86cd799439012", Age |-> a, Gender |-> "Female",
       Caste |-> c, Sect |-> se, State |-> st, Marital_Status |-> ms] :
         a \in {26, 29, 32}, c \in {NoParam, "Brahmin", "Kshatriya"},
         se \in {NoParam, "Hindu"}, st \in {NoParam, "Texas"},
         ms \in {"Never Married", "Divorced"} }

\* Result lists of 0 to 3 records
MatchLists ==
    {<<>>} \cup { <<m>> : m \in PanelMatches }
           \cup { <<m1, m2>> : m1 \in PanelMatches, m2 \in PanelMatches }
           \cup { <<m1, m2, mockResults[1]>> : m1 \in PanelMatches, m2 \in PanelMatches }

\* The page after a response with these results has been handled
PanelInit ==
    /\ searchParams = EmptyParams
    /\ matches \in MatchLists
    /\ loading = FALSE
    /\ error = NoError
    /\ totalCandidates = Len(matches)
    /\ inflight = <<>>
    /\ nextId = 0
    /\ handled = NoneHandled
    /\ latest = NoOutcome
    /\ cleared = FALSE
    /\ indexAvailable = TRUE
    /\ panel = NoPanel

\* route.ts:244-246: the panel is rendered when there is a top match
RenderPanel ==
    /\ Len(TopMatches(matches)) > 0
    /\ panel' = [rendered |-> TRUE,
                 score    |-> generateCompatibilityScore(TopMatches(matches)),
                 reasons  |-> generateReasons(TopMatches(matches)),
                 shown    |-> ShownReasons(generateReasons(TopMatches(matches)))]
    /\ UNCHANGED <<dashVars, formData>>

----------------------------------------------------------------------------
(* Ranking of a similarity search (spec 4.2, "Ranking") *)

NumProfiles == 3
MaxScore == 2
MaxPool == 3

ProfileIds == 1..NumProfiles

\* Sequences of at most n hits
RECURSIVE HitSeqs(_)
HitSeqs(n) ==
    IF n = 0 THEN {<<>>}
    ELSE HitSeqs(n - 1) \cup
         { Append(h, id) : h \in { x \in HitSeqs(n - 1) : Len(x) = n - 1 }, id \in ProfileIds }

\* a ranks before b: higher score first, equal scores by ascending id
Before(a, b, score) ==
    \/ score[a] > score[b]
    \/ score[a] = score[b] /\ a < b

\* Insert id in a ranked list, unless it is already there
RECURSIVE InsertRanked(_, _, _)
InsertRanked(id, list, score) ==
    IF list = <<>> THEN <<id>>
    ELSE IF Head(list) = id THEN list
    ELSE IF Before(id, Head(list), score) THEN <<id>> \o list
    ELSE <<Head(list)>> \o InsertRanked(id, Tail(list), score)

\* The ranked result list of the hits of a similarity search
RECURSIVE RankResults(_, _)
RankResults(hits, score) ==
    IF hits = <<>> THEN <<>>
    ELSE InsertRanked(hits[Len(hits)], RankResults(SubSeq(hits, 1, Len(hits) - 1), score), score)

RankInit ==
    /\ indexScore \in [ProfileIds -> 0..MaxScore]
    /\ pool = <<>>
    /\ ranked = <<>>
    /\ cards = <<>>

\* A match query: similarity search, ranking, and Home rendering the result
RankedSearch(hits) ==
    /\ pool' = hits
    /\ ranked' = RankResults(hits, indexScore)
    /\ cards' = MatchCards(ranked')
    /\ UNCHANGED indexScore

----------------------------------------------------------------------------
(* Embedding Indexer (spec 4.1): the bulk load, `embeddings.py --limit N` *)

MaxRuns == 2

NoProfile == "<none>"
EmbedFail == 0
StaleVector == 9

\* embedding_text values; "" is the text of a profile without free text
Texts == {"", "books and travel", "caring partner"}
Vectors == {1, 2}

\* The records of profile id in the index
RecordsOf(index, id) == { r \in index : r.id = id }

\* Insert that adds a record without removing the profile's earlier one
UpsertAdding(index, id, vector) ==
    index \cup {[id |-> id, vector |-> vector]}

\* Insert/replace: the later write replaces the earlier one
Upsert(index, id, vector) ==
    (index \ RecordsOf(index, id)) \cup {[id |-> id, vector |-> vector]}

NoRun == [active |-> FALSE, runs |-> 0, limit |-> 0, prevLimit |-> 0, cursor |-> 0,
          processed |-> 0, embedded |-> 0, skipped |-> 0, failed |-> 0]

NumRegistrants == 2

Registrants == 1..NumRegistrants

NoRegs == [p \in Registrants |-> [pc |-> "idle", id |-> 0, text |-> ""]]

IndexerInit ==
    /\ profileStore \in [ProfileIds -> Texts]
    /\ embedFn \in [Texts \ {""} -> Vectors \cup {EmbedFail}]
    /\ vectorIndex \in {{}, {[id |-> 1, vector |-> StaleVector]}}
    /\ run = NoRun
    /\ prevIndex = vectorIndex
    /\ regs = NoRegs
    /\ found = {}

\* The bulk load is started with a limit
StartRun(limit) ==
    /\ ~run.active
    /\ run.runs < MaxRuns
    /\ run' = [active |-> TRUE, runs |-> run.runs + 1, limit |-> limit,
               prevLimit |-> run.limit, cursor |-> 0,
               processed |-> 0, embedded |-> 0, skipped |-> 0, failed |-> 0]
    /\ prevIndex' = vectorIndex
    /\ UNCHANGED <<profileStore, embedFn, vectorIndex, regs, found>>

\* One profile of the run, an embedding failure aborting the whole run
IndexProfileAborting ==
    /\ run.active
    /\ run.cursor < Min(run.limit, NumProfiles)
    /\ LET id   == run.cursor + 1
           text == profileStore[id]
       IN  IF text = ""
           THEN /\ run' = [run EXCEPT !.cursor = @ + 1, !.processed = @ + 1, !.skipped = @ + 1]
                /\ UNCHANGED vectorIndex
           ELSE IF embedFn[text] = EmbedFail
           THEN /\ run' = [run EXCEPT !.cursor = Min(run.limit, NumProfiles),
                                      !.processed = @ + 1, !.failed = @ + 1]
                /\ UNCHANGED vectorIndex
           ELSE /\ run' = [run EXCEPT !.cursor = @ + 1, !.processed = @ + 1, !.embedded = @ + 1]
                /\ vectorIndex' = Upsert(vectorIndex, id, embedFn[text])
    /\ UNCHANGED <<profileStore, embedFn, prevIndex, regs, found>>

\* One profile of the run (4.1 steps 1-4): skipped when its text is empty,
\* failed when the embedding fails, embedded and inserted otherwise
IndexProfile ==
    /\ run.active
    /\ run.cursor < Min(run.limit, NumProfiles)
    /\ LET id   == run.cursor + 1
           text == profileStore[id]
       IN  IF text = ""
           THEN /\ run' = [run EXCEPT !.cursor = @ + 1, !.processed = @ + 1, !.skipped = @ + 1]
                /\ UNCHANGED vectorIndex
           ELSE IF embedFn[text] = EmbedFail
           THEN /\ run' = [run EXCEPT !.cursor = @ + 1, !.processed = @ + 1, !.failed = @ + 1]
                /\ UNCHANGED vectorIndex
           ELSE /\ run' = [run EXCEPT !.cursor = @ + 1, !.processed = @ + 1, !.embedded = @ + 1]
                /\ vectorIndex' = Upsert(vectorIndex, id, embedFn[text])
    /\ UNCHANGED <<profileStore, embedFn, prevIndex, regs, found>>

\* The run ends and emits its summary
FinishRun ==
    /\ run.active
    /\ run.cursor = Min(run.limit, NumProfiles)
    /\ run' = [run EXCEPT !.active = FALSE]
    /\ UNCHANGED <<profileStore, embedFn, vectorIndex, prevIndex, regs, found>>

----------------------------------------------------------------------------
(* Registration Handler (spec 2, 5): POST /users *)

RegisterInit ==
    /\ profileStore = [p \in ProfileIds |-> NoProfile]
    /\ embedFn \in [Texts \ {""} -> Vectors \cup {EmbedFail}]
    /\ vectorIndex = {}
    /\ run = NoRun
    /\ prevIndex = {}
    /\ regs = NoRegs
    /\ found = {}

\* A registration whose first step inserts the embedding, not the fields
RegWriteStoreIndexFirst(p, id, text) ==
    /\ regs[p].pc = "idle"
    /\ vectorIndex' = IF text = "" \/ embedFn[text] = EmbedFail THEN vectorIndex
                      ELSE Upsert(vectorIndex, id, embedFn[text])
    /\ regs' = [regs EXCEPT ![p] = [pc |-> "stored", id |-> id, text |-> text]]
    /\ UNCHANGED <<profileStore, embedFn, run, prevIndex, found>>

\* A registration writes the structured fields to the Profile Store
RegWriteStore(p, id, text) ==
    /\ regs[p].pc = "idle"
    /\ profileStore' = [profileStore EXCEPT ![id] = text]
    /\ regs' = [regs EXCEPT ![p] = [pc |-> "stored", id |-> id, text |-> text]]
    /\ UNCHANGED <<embedFn, vectorIndex, run, prevIndex, found>>

\* ... then embeds the text and inserts it into the Vector Index; a profile
\* without text, or whose embedding fails, stays out of the index
RegInsertIndex(p) ==
    /\ regs[p].pc = "stored"
    /\ LET id == regs[p].id
           text == regs[p].text
       IN  IF text = "" \/ embedFn[text] = EmbedFail
           THEN /\ regs' = [regs EXCEPT ![p].pc = "unindexed"]
                /\ UNCHANGED vectorIndex
           ELSE /\ regs' = [regs EXCEPT ![p].pc = "done"]
                /\ vectorIndex' = Upsert(vectorIndex, id, embedFn[text])
    /\ UNCHANGED <<profileStore, embedFn, run, prevIndex, found>>

\* A similarity search returns profiles that have an embedding record
SimilaritySearch ==
    /\ found' = { r.id : r \in vectorIndex }
    /\ UNCHANGED <<profileStore, embedFn, vectorIndex, run, prevIndex, regs>>

IndexerIdle ==
    /\ profileStore = [p \in ProfileIds |-> NoProfile]
    /\ embedFn = [t \in Texts \ {""} |-> 1]
    /\ vectorIndex = {}
    /\ run = NoRun
    /\ prevIndex = {}
    /\ regs = NoRegs
    /\ found = {}

----------------------------------------------------------------------------
(* Specifications *)

RankIdle ==
    /\ indexScore = [p \in ProfileIds |-> 0]
    /\ pool = <<>>
    /\ ranked = <<>>
    /\ cards = <<>>

\* The dashboard
Init == ApiInit /\ DashInit /\ RankIdle /\ IndexerIdle /\ FormInit /\ PanelIdle

Next ==
    \/ \E params \in SubmittedParams :
          HandleSearchStart(params) /\ UNCHANGED <<apiVars, rankVars, idxVars, uiVars>>
    \/ \E i \in DOMAIN inflight :
          \E o \in ServiceOutcomes(inflight[i].req, indexAvailable) :
             HandleSearchFinish(i, o) /\ UNCHANGED <<apiVars, rankVars, idxVars, uiVars>>
    \/ HandleClear /\ UNCHANGED <<apiVars, rankVars, idxVars, uiVars>>
    \/ IndexToggle /\ UNCHANGED <<apiVars, rankVars, idxVars, uiVars>>

Spec == Init /\ [][Next]_vars

\* The dashboard with one search at a time: handleSearch is not called
\* again while a search is awaiting its response
SingleNext ==
    \/ \E params \in SubmittedParams :
          /\ inflight = <<>>
          /\ HandleSearchStart(params)
          /\ UNCHANGED <<apiVars, rankVars, idxVars, uiVars>>
    \/ \E i \in DOMAIN inflight :
          \E o \in ServiceOutcomes(inflight[i].req, indexAvailable) :
             HandleSearchFinish(i, o) /\ UNCHANGED <<apiVars, rankVars, idxVars, uiVars>>
    \/ HandleClear /\ UNCHANGED <<apiVars, rankVars, idxVars, uiVars>>
    \/ IndexToggle /\ UNCHANGED <<apiVars, rankVars, idxVars, uiVars>>

SpecSingle == Init /\ [][SingleNext]_vars

\* The /match handler answering requests
ApiNext == \E req \in Requests : Match(req) /\ UNCHANGED <<dashVars, rankVars, idxVars, uiVars>>

SpecApi == Init /\ [][ApiNext]_vars

\* Ranked match queries
RankNext ==
    \E hits \in HitSeqs(MaxPool) : RankedSearch(hits) /\ UNCHANGED <<apiVars, dashVars, idxVars, uiVars>>

RankSpecInit == ApiInit /\ DashInit /\ RankInit /\ IndexerIdle /\ FormInit /\ PanelIdle

SpecRank == RankSpecInit /\ [][RankNext]_vars

\* The bulk indexer
IndexerNext ==
    \/ \E limit \in 1..(NumProfiles + 1) :
          StartRun(limit) /\ UNCHANGED <<apiVars, dashVars, rankVars, uiVars>>
    \/ IndexProfile /\ UNCHANGED <<apiVars, dashVars, rankVars, uiVars>>
    \/ FinishRun /\ UNCHANGED <<apiVars, dashVars, rankVars, uiVars>>

IndexerSpecInit == ApiInit /\ DashInit /\ RankIdle /\ IndexerInit /\ FormInit /\ PanelIdle

SpecIndexer == IndexerSpecInit /\ [][IndexerNext]_vars

\* Concurrent registrations and searches
RegisterNext ==
    \/ \E p \in Registrants, id \in ProfileIds, text \in Texts :
          RegWriteStore(p, id, text) /\ UNCHANGED <<apiVars, dashVars, rankVars, uiVars>>
    \/ \E p \in Registrants :
          RegInsertIndex(p) /\ UNCHANGED <<apiVars, dashVars, rankVars, uiVars>>
    \/ SimilaritySearch /\ UNCHANGED <<apiVars, dashVars, rankVars, uiVars>>

RegisterSpecInit == ApiInit /\ DashInit /\ RankIdle /\ RegisterInit /\ FormInit /\ PanelIdle

SpecRegister == RegisterSpecInit /\ [][RegisterNext]_vars

\* The preferences form driving the dashboard
FormNext ==
    \/ \E name \in EditedFields : \E value \in FieldValues(name) :
          HandleChange(name, value) /\ UNCHANGED <<apiVars, rankVars, idxVars>>
    \/ HandleSubmit /\ UNCHANGED <<apiVars, rankVars, idxVars>>
    \/ HandleClearForm /\ UNCHANGED <<apiVars, rankVars, idxVars>>
    \/ \E i \in DOMAIN inflight :
          \E o \in ServiceOutcomes(inflight[i].req, indexAvailable) :
             HandleSearchFinish(i, o) /\ UNCHANGED <<apiVars, rankVars, idxVars, uiVars>>

SpecForm == Init /\ [][FormNext]_vars

\* The AI review panel
PanelNext == RenderPanel /\ UNCHANGED <<apiVars, rankVars, idxVars>>

PanelSpecInit == ApiInit /\ PanelInit /\ RankIdle /\ IndexerIdle /\ FormInit

SpecPanel == PanelSpecInit /\ [][PanelNext]_vars

----------------------------------------------------------------------------
(* Properties *)

\* Lower-casing, for the case-insensitive comparison of string filters
Lower(s) ==
    CASE s = "Male"          -> "male"
      [] s = "Female"        -> "female"
      [] s = "Other"         -> "other"
      [] s = "Brahmin"       -> "brahmin"
      [] s = "Kshatriya"     -> "kshatriya"
      [] s = "Syed"          -> "syed"
      [] s = "Hindu"         -> "hindu"
      [] s = "California"    -> "california"
      [] s = "Texas"         -> "texas"
      [] s = "New York"      -> "new york"
      [] s = "Never Married" -> "never married"
      [] OTHER               -> s

StringFilterHolds(param, field) == param = NoParam \/ Lower(param) = Lower(field)

\* The record r satisfies every structured filter the request specifies
FilterHolds(req, r) ==
    /\ StringFilterHolds(req.gender, r.Gender)
    /\ StringFilterHolds(req.caste, r.Caste)
    /\ StringFilterHolds(req.sect, r.Sect)
    /\ StringFilterHolds(req.state, r.State)
    /\ StringFilterHolds(req.marital_status, r.Marital_Status)
    /\ (req.min_age = NoNum \/ r.Age >= req.min_age)
    /\ (req.max_age = NoNum \/ r.Age <= req.max_age)

Results == { response.results[k] : k \in DOMAIN response.results }

\* The profiles the handler knows: the records it returns
Profiles == { mockResults[k] : k \in DOMAIN mockResults }

SeedKnown == \E p \in Profiles : p._id = request.user_id
Seed == CHOOSE p \in Profiles : p._id = request.user_id

ModeB == exchanged /\ request.user_id # NoParam

Opposite(g) ==
    CASE g = "Male" -> "Female" [] g = "Female" -> "Male" [] OTHER -> "Other"

Abs(n) == IF n < 0 THEN -n ELSE n

\* C1: every returned record satisfies every structured filter the request
\* specifies, strings compared case-insensitively and Age within
\* [min_age, max_age].
C1_FilterCorrectness ==
    exchanged => \A r \in Results : FilterHolds(request, r)

\* C2: in a user_id query the seed profile id is never among the results.
C2_SeedExcluded ==
    ModeB => \A r \in Results : r._id # request.user_id

\* C4: in a user_id query (no explicit gender filter) every result has the
\* seed's gender when same_gender is true and the opposite gender when it
\* is false or absent.
C4_GenderPolicy ==
    (ModeB /\ SeedKnown /\ request.gender = NoParam) =>
        \A r \in Results :
            IF request.same_gender = "true"
            THEN r.Gender = Seed.Gender
            ELSE r.Gender = Opposite(Seed.Gender)

\* C5: in a user_id query without explicit min_age/max_age every result's
\* age is within age_tolerance (5 when not given) of the seed's age.
C5_AgeWindow ==
    (ModeB /\ SeedKnown /\ request.min_age = NoNum /\ request.max_age = NoNum) =>
        \A r \in Results :
            Abs(r.Age - Seed.Age) <=
                (IF request.age_tolerance = NoNum THEN 5 ELSE request.age_tolerance)

\* C6: a request with neither query nor user_id is answered InvalidRequest
\* and yields no result list.
C6_NeitherIsInvalid ==
    (exchanged /\ request.query = NoParam /\ request.user_id = NoParam) =>
        response.kind = "InvalidRequest"

\* C7: a request with both query and user_id is handled as a user_id query
\* and answered as the same request without query is.
C7_BothPrefersUserId ==
    (exchanged /\ Truthy(request.query) /\ Truthy(request.user_id)) =>
        LET alone == GET([request EXCEPT !.query = NoParam])
        IN  /\ response.kind = alone.kind
            /\ response.results = alone.results
            /\ response.candidates = alone.candidates
            /\ response.query = alone.query

\* C8: the number of results never exceeds top_k; top_k = 0 gives an empty
\* list.
C8_TopKBound ==
    (exchanged /\ request.top_k # NoNum) => Len(response.results) <= request.top_k

\* C9: a free-text query whose filters no profile satisfies succeeds with an
\* empty result list and candidates 0.
C9_EmptyIsOk ==
    (exchanged /\ Truthy(request.query) /\ request.user_id = NoParam
       /\ \A p \in Profiles : ~FilterHolds(request, p)) =>
        /\ response.kind = "Ok"
        /\ response.results = <<>>
        /\ response.candidates = 0

\* C10: a search answered while the index is unavailable is answered
\* ServiceUnavailable; a failed search ends with error non-null and a
\* search answered successfully (with no results, too) ends with error
\* null.
C10_DegradedIsDistinct ==
    [][handled' # handled =>
         /\ (~handled'.available => handled'.outcome = Unavailable)
         /\ (handled'.outcome.kind # "Ok" => error' # NoError)
         /\ (handled'.outcome.kind = "Ok" => error' = NoError)]_vars

Range(s) == { s[k] : k \in DOMAIN s }

C11_PartialFailure ==
    /\ run.processed = run.embedded + run.skipped + run.failed
    /\ (~run.active /\ run.runs > 0) => run.processed = Min(run.limit, NumProfiles)

\* C11 witness: a finished run that went on after a failed profile
C11_Witness ==
    /\ ~run.active
    /\ run.failed >= 1
    /\ run.skipped >= 1
    /\ run.embedded >= 1
    /\ profileStore[1] # ""
    /\ embedFn[profileStore[1]] = EmbedFail

AtMostOneRecord == \A id \in ProfileIds : Cardinality(RecordsOf(vectorIndex, id)) <= 1

\* C12: a second run with the same limit on the unchanged store leaves the
\* index as the first run left it, and no profile ever has two embedding
\* records.
C12_Idempotent ==
    /\ AtMostOneRecord
    /\ (~run.active /\ run.runs >= 2 /\ run.limit = run.prevLimit)
          => vectorIndex = prevIndex

\* C12 witness: a second run with the same limit that re-embedded a profile
\* whose stale record the first run had replaced
C12_Witness ==
    /\ ~run.active
    /\ run.runs >= 2
    /\ run.limit = run.prevLimit
    /\ run.embedded >= 1
    /\ profileStore[1] # ""
    /\ [id |-> 1, vector |-> embedFn[profileStore[1]]] \in vectorIndex
    /\ [id |-> 1, vector |-> StaleVector] \notin vectorIndex

\* C13: a profile returned by the similarity search has its structured
\* fields in the Profile Store and its embedding in the Vector Index, and
\* no profile id has two embedding records.
C13_RegistrationAtomic ==
    /\ \A id \in found :
          /\ profileStore[id] # NoProfile
          /\ RecordsOf(vectorIndex, id) # {}
    /\ AtMostOneRecord

\* C13 witness: two registrations of the same id with different texts have
\* both inserted, and a search has returned the profile
C13_Witness ==
    /\ regs[1].pc = "done"
    /\ regs[2].pc = "done"
    /\ regs[1].id = regs[2].id
    /\ regs[1].text # regs[2].text
    /\ embedFn[regs[1].text] # embedFn[regs[2].text]
    /\ regs[1].id \in found

\* What the page shows once outcome o has been handled alone
ShowsOutcome(o) ==
    IF o.kind = "Ok"
    THEN /\ error = NoError
         /\ matches = (IF o.body.hasResults THEN o.body.results ELSE <<>>)
         /\ totalCandidates = (IF o.body.hasCandidates THEN o.body.candidates ELSE 0)
    ELSE /\ error # NoError
         /\ matches = <<>>

\* C16: with one search at a time, loading is TRUE exactly while the search
\* awaits its response; when the response is handled loading becomes
\* FALSE, a failure leaves error non-null, matches empty and
\* totalCandidates as it was, and a success leaves error null and
\* matches/totalCandidates as in the response ([] and 0 when absent).
C16_SingleSearch ==
    /\ [](loading <=> inflight # <<>>)
    /\ [][handled' # handled =>
            /\ loading' = FALSE
            /\ IF handled'.outcome.kind = "Ok"
               THEN /\ error' = NoError
                    /\ matches' = (IF handled'.outcome.body.hasResults
                                   THEN handled'.outcome.body.results ELSE <<>>)
                    /\ totalCandidates' = (IF handled'.outcome.body.hasCandidates
                                           THEN handled'.outcome.body.candidates ELSE 0)
               ELSE /\ error' # NoError
                    /\ error' = ErrorMessage(handled'.outcome)
                    /\ matches' = <<>>
                    /\ totalCandidates' = totalCandidates]_vars

\* C16 witness: a search that failed after an earlier one had succeeded
C16_Witness ==
    /\ handled.id = 2
    /\ handled.outcome = Unavailable
    /\ inflight = <<>>
    /\ ~loading
    /\ error = "ServiceUnavailable"
    /\ matches = <<>>
    /\ totalCandidates = 45

\* C17: while a search is in flight loading is TRUE, and once every search
\* has completed the page shows the outcome of the most recently
\* submitted one.
C17_LatestWins ==
    /\ inflight # <<>> => loading
    /\ (inflight = <<>> /\ nextId > 0 /\ ~cleared) => ShowsOutcome(latest)

\* C18: after handleClear, until the next search is submitted, matches is
\* empty, error is null and searchParams is {}.
C18_ClearedStays ==
    cleared => /\ matches = <<>>
               /\ error = NoError
               /\ searchParams = EmptyParams

Pending == { inflight[k].req : k \in DOMAIN inflight }

Provided(n) == n # NoNum /\ n # EmptyNum

\* C14: a request built from the form has min_age and max_age both with a
\* value, or has neither.
C14_AgeRangeBothOrNeither ==
    \A req \in Pending :
        \/ req.min_age = NoNum /\ req.max_age = NoNum
        \/ Provided(req.min_age) /\ Provided(req.max_age)

\* C15: a request built from the form with a User ID carries no explicit
\* min_age/max_age, so that the age window comes from age_tolerance.
C15_ToleranceUsed ==
    \A req \in Pending :
        req.user_id # NoParam =>
            /\ req.age_tolerance # NoNum
            /\ req.min_age = NoNum
            /\ req.max_age = NoNum

AgreeingAttributes(m1, m2) ==
    Cardinality({ a \in {"Caste", "Sect", "State", "Marital_Status"} : m1[a] = m2[a] })
      + (IF m1.Age - m2.Age <= 5 /\ m2.Age - m1.Age <= 5 THEN 1 ELSE 0)

\* C19: the score shown is 0 exactly when there are fewer than two top
\* matches; otherwise it is 70 + 5 * (number of agreeing attributes), one of
\* 70, 75, ..., 95; with two matches the reasons are the generic three when
\* nothing agrees and otherwise one per agreeing attribute; at most 4 are
\* shown.
C19_CompatibilityScore ==
    panel.rendered =>
        LET top == TopMatches(matches)
        IN  /\ (panel.score = 0 <=> Len(top) < 2)
            /\ panel.score <= 100
            /\ Len(panel.shown) <= 4
            /\ Len(panel.shown) = Min(4, Len(panel.reasons))
            /\ Len(top) = 2 =>
                 LET n == AgreeingAttributes(top[1], top[2])
                 IN  /\ panel.score = 70 + 5 * n
                     /\ panel.score \in {70, 75, 80, 85, 90, 95}
                     /\ IF n = 0 THEN panel.reasons = GenericReasons
                        ELSE /\ Len(panel.reasons) * 5 = panel.score - 70
                             /\ \A k \in DOMAIN panel.reasons :
                                   \A g \in DOMAIN GenericReasons :
                                       panel.reasons[k] # GenericReasons[g]

\* C19 witness: three results whose top two agree on everything, a
\* missing Caste included: score 95, five reasons, four shown
C19_Witness ==
    /\ panel.rendered
    /\ Len(matches) = 3
    /\ matches[1].Caste = NoParam
    /\ matches[2].Caste = NoParam
    /\ panel.score = 95
    /\ Len(panel.reasons) = 5
    /\ Len(panel.shown) = 4

====
